---- MODULE Spec2Model ----
(***************************************************************************)
(* Price-monitoring engine of server.js: product registration, target     *)
(* update, soft delete, and the checkPrices sweep started by the cron      *)
(* schedule or by POST /api/check-prices.                                  *)
(*                                                                         *)
(* Time is counted in seconds.  Prices are JavaScript numbers, held in     *)
(* hundredths (85.00 is 8500) so that they stay integers.                  *)
(*                                                                         *)
(* The database calls follow mongoose: save() sends the modified paths of  *)
(* the loaded document, findOneAndUpdate sets one field.  The mail         *)
(* transporter of line 76 is taken as constructed.                         *)
(***************************************************************************)
EXTENDS Integers, Sequences, FiniteSets, TLC

\* ---------------------------------------------------------------- bounds
MaxItems == 2          \* product documents that can be registered
MaxSweeps == 2         \* invocations of checkPrices
MaxTime == 1           \* seconds the clock may run while no timer is pending

\* ------------------------------------------------------ program constants
HistoryCap == 30       \* if (product.priceHistory.length > 30) ... slice(-30)
PacingDelay == 2       \* setTimeout(resolve, 2000)

Items == 1..MaxItems
Sweeps == 1..MaxSweeps

\* ------------------------------------------------------ JavaScript values
Num(n) == [kind |-> "number", v |-> n]
JSNull == [kind |-> "null", v |-> 0]
JSNaN == [kind |-> "NaN", v |-> 0]
JSUndefined == [kind |-> "undefined", v |-> 0]

\* ToBoolean: null, undefined, NaN and 0 are falsy.
Truthy(x) == x.kind = "number" /\ x.v # 0

\* a <= b and a < b on numbers; a comparison with NaN or undefined is false.
JSLeq(a, b) == a.kind = "number" /\ b.kind = "number" /\ a.v <= b.v
JSLess(a, b) == a.kind = "number" /\ b.kind = "number" /\ a.v < b.v

\* ------------------------------------------------------------ scrapePrice
\* The text of a selector after .replace(/[^\d.]/g, ''): digits and dots.
Digits == {"0", "1", "2", "3", "4", "5", "6", "7", "8", "9"}

DigitVal(c) ==
  CASE c = "0" -> 0 [] c = "1" -> 1 [] c = "2" -> 2 [] c = "3" -> 3
    [] c = "4" -> 4 [] c = "5" -> 5 [] c = "6" -> 6 [] c = "7" -> 7
    [] c = "8" -> 8 [] c = "9" -> 9

\* Length of the longest prefix of t made of digits.
RECURSIVE DigitRun(_)
DigitRun(t) ==
  IF t = <<>> \/ Head(t) \notin Digits THEN 0 ELSE 1 + DigitRun(Tail(t))

\* Value of a sequence of digits.
RECURSIVE DigitsValue(_)
DigitsValue(t) ==
  IF t = <<>> THEN 0
  ELSE 10 * DigitsValue(SubSeq(t, 1, Len(t) - 1)) + DigitVal(t[Len(t)])

\* parseFloat on such a text: the longest prefix digits[.digits]; NaN when that
\* prefix holds no digit.  The value is in hundredths (texts carry at most two
\* fractional digits).
ParseFloat(t) ==
  LET n == DigitRun(t)
      whole == SubSeq(t, 1, n)
      rest == SubSeq(t, n + 1, Len(t))
      hasDot == rest # <<>> /\ Head(rest) = "."
      m == IF hasDot THEN DigitRun(Tail(rest)) ELSE 0
      frac == IF hasDot THEN SubSeq(Tail(rest), 1, m) ELSE <<>>
      hundredths ==
        IF m = 0 THEN 0
        ELSE IF m = 1 THEN 10 * DigitsValue(frac)
        ELSE DigitsValue(SubSeq(frac, 1, 2))
  IN IF n = 0 /\ m = 0 THEN JSNaN
     ELSE Num(100 * DigitsValue(whole) + hundredths)

\* A response to axios.get: the request failed (network error, status, timeout),
\* or a page of a known or unknown store with the stripped texts of its primary
\* and secondary price selectors.
Failed == [ok |-> FALSE, known |-> FALSE, primary |-> <<>>, secondary |-> <<>>]
Page(known, p, s) == [ok |-> TRUE, known |-> known, primary |-> p, secondary |-> s]

\* What scrapePrice returns: null on a failed request, else a result whose price
\* is parseFloat of the first non-empty selector text, or null without one.
NoData == [data |-> FALSE, price |-> JSNull]

ScrapePrice(resp) ==
  IF ~resp.ok THEN NoData
  ELSE LET text == IF ~resp.known THEN <<>>
                   ELSE IF resp.primary # <<>> THEN resp.primary
                   ELSE resp.secondary
       IN [data |-> TRUE,
           price |-> IF text # <<>> THEN ParseFloat(text) ELSE JSNull]

\* Variants of the test below: without the price, and with a test against null only.
PriceOkAnyData(sd) == sd.data
PriceOkNotNull(sd) == sd.data /\ sd.price.kind # "null"

\* if (scrapedData && scrapedData.price)
PriceOk(sd) == sd.data /\ Truthy(sd.price)


\* Inputs: the responses target sites give, and the target prices users send.
Responses ==
  { Failed,
    Page(FALSE, <<"8", "5">>, <<>>),
    Page(TRUE, <<>>, <<>>),
    Page(TRUE, <<".">>, <<>>),
    Page(TRUE, <<"0">>, <<>>),
    Page(TRUE, <<"8", "5">>, <<>>),
    Page(TRUE, <<>>, <<"9", "5", ".", "0">>),
    Page(TRUE, <<"1", "0", "0", ".", "0", "0">>, <<"8", "5">>) }

\* The target prices of a request body: none or 90.00, and 0, which is a target
\* that is set and falsy.
Targets == {JSUndefined, Num(9000)}
TargetsWithZero == Targets \cup {Num(0)}

\* ------------------------------------------------------------------ state
VARIABLES
  db,           \* the products collection: one document per item id
  now,          \* the clock
  pc,           \* where each invocation of checkPrices stands
  trigger,      \* what called it, until its first await returns
  products,     \* its result of Product.find({ isActive: true }): documents
  idx,          \* position of the for loop in products
  scrapedData,  \* its scrapedData
  oldPrice,     \* its oldPrice
  newPrice,     \* its newPrice
  delta,        \* the update its pending product.save() sends
  user,         \* its result of User.findById
  mail,         \* outcome of its transporter.sendMail
  wakeAt,       \* when its setTimeout fires
  fetchLog,     \* history: the fetches of the invocation, with their time
  notified,     \* history: its calls of sendNotification
  prior,        \* history: the stored currentPrice its last save replaced
  obsLog,       \* history: per item, the observations saved, in save order
  overlapped,   \* history: two invocations have been in progress at once
  limit,        \* the run's bounds: items registered, invocations started,
                \* the target prices requests carry, the seconds the clock
                \* may run while no timer is pending, and the routes whose
                \* replies are kept
  reply         \* history: the last reply of POST /api/products and of
                \* POST /api/check-prices

vars == <<db, now, pc, trigger, products, idx, scrapedData, oldPrice, newPrice,
          delta, user, mail, wakeAt, fetchLog, notified, prior, obsLog, overlapped,
          limit, reply>>

locals == <<scrapedData, oldPrice, newPrice, delta, user, mail>>

\* --------------------------------------------------------------- documents
\* productSchema: the fields the engine reads and writes, and mongoose's __v.
NoDoc ==
  [exists |-> FALSE, isActive |-> FALSE, currentPrice |-> JSUndefined,
   targetPrice |-> JSUndefined, priceHistory |-> <<>>, lastChecked |-> 0, v |-> 0]

\* Variant of the document below: no priceHistory is given.
NewProductNoHistory(price, target, t) ==
  [exists |-> TRUE, isActive |-> TRUE, currentPrice |-> price,
   targetPrice |-> target, priceHistory |-> <<>>, lastChecked |-> t, v |-> 0]

\* new Product({...}): the defaults (isActive, lastChecked, date) are set here.
NewProduct(price, target, t) ==
  [exists |-> TRUE, isActive |-> TRUE, currentPrice |-> price,
   targetPrice |-> target, priceHistory |-> <<[price |-> price, date |-> t]>>,
   lastChecked |-> t, v |-> 0]

\* Schema validation on save: currentPrice and every priceHistory price are
\* required Numbers (null fails "required", NaN fails the cast).
Valid(p) ==
  /\ p.currentPrice.kind = "number"
  /\ \A k \in 1..Len(p.priceHistory) : p.priceHistory[k].price.kind = "number"

\* The document find() hands to the loop: a copy of the stored one.
LoadDoc(d, i) ==
  [id |-> i, isActive |-> d[i].isActive, currentPrice |-> d[i].currentPrice,
   targetPrice |-> d[i].targetPrice, priceHistory |-> d[i].priceHistory,
   lastChecked |-> d[i].lastChecked, v |-> d[i].v]

\* Product.find({ isActive: true }), in _id order.
ActiveProducts(d) ==
  LET ids == SelectSeq([i \in 1..MaxItems |-> i],
                       LAMBDA i : d[i].exists /\ d[i].isActive)
  IN [k \in 1..Len(ids) |-> LoadDoc(d, ids[k])]

\* Variant of the slice below: array.slice(0, n), the first n.
SliceFirst(h, n) == IF Len(h) > n THEN SubSeq(h, 1, n) ELSE h

\* array.slice(-n)
SliceLast(h, n) == IF Len(h) > n THEN SubSeq(h, Len(h) - n + 1, Len(h)) ELSE h

\* if (product.priceHistory.length > 30)
Exceeds(h) == Len(h) > HistoryCap

\* product.priceHistory.push({ price: newPrice }): date defaults to Date.now.
Pushed(p, price, t) == Append(p.priceHistory, [price |-> price, date |-> t])

\* The assignments of checkPrices to the loaded document.
UpdateProduct(p, price, t) ==
  [p EXCEPT !.currentPrice = price,
            !.lastChecked = t,
            !.priceHistory = IF Exceeds(Pushed(p, price, t))
                             THEN SliceLast(Pushed(p, price, t), HistoryCap)
                             ELSE Pushed(p, price, t)]

\* What save() sends for that document.  mongoose sends the modified paths only:
\* a path assigned the value it already had is not modified; push() alone goes
\* as an atomic $push, which increments __v and does not test it; an array that
\* was assigned goes as a $set of the whole array, under WHERE __v = the version
\* that was loaded.
Delta(p, price, t) ==
  [setCurrentPrice |-> price # p.currentPrice,
   setLastChecked |-> t # p.lastChecked,
   histOp |-> IF Exceeds(Pushed(p, price, t)) THEN "set" ELSE "push",
   entry |-> [price |-> price, date |-> t],
   whereV |-> p.v]

NoDelta ==
  [setCurrentPrice |-> FALSE, setLastChecked |-> FALSE, histOp |-> "none",
   entry |-> [price |-> JSUndefined, date |-> 0], whereV |-> 0]

\* Variant of the test below: the whole array is written whatever __v is stored.
SaveSucceedsUnversioned(stored, p, dl, dbOk) ==
  /\ dbOk
  /\ Valid(p)
  /\ stored.exists

\* save() goes through when the database takes the write, the document is valid
\* and, for a versioned write, the stored __v is still the loaded one.
SaveSucceeds(stored, p, dl, dbOk) ==
  /\ dbOk
  /\ Valid(p)
  /\ stored.exists
  /\ dl.histOp = "set" => stored.v = dl.whereV

\* The stored document after the write (one atomic update).
ApplySave(stored, p, dl) ==
  [stored EXCEPT
     !.currentPrice = IF dl.setCurrentPrice THEN p.currentPrice ELSE @,
     !.lastChecked = IF dl.setLastChecked THEN p.lastChecked ELSE @,
     !.priceHistory = IF dl.histOp = "push" THEN Append(@, dl.entry) ELSE p.priceHistory,
     !.v = @ + 1]

\* Variant of the test below: without the comparison to oldPrice.
ShouldNotifyAtTarget(target, new, old) ==
  Truthy(target) /\ JSLeq(new, target)

\* Variant of the test below: newPrice <= oldPrice, no strict drop.
ShouldNotifyNoDrop(target, new, old) ==
  Truthy(target) /\ JSLeq(new, target) /\ JSLeq(new, old)

\* product.targetPrice && newPrice <= product.targetPrice && newPrice < oldPrice
ShouldNotify(target, new, old) ==
  Truthy(target) /\ JSLeq(new, target) /\ JSLess(new, old)


\* ------------------------------------------------------------------- Init
\* res.status(status).json(...) of a route, as kept in reply.
NoReply == [route |-> "none", status |-> 0]

Reply(route, status) ==
  reply' = IF route \in limit.replies
           THEN [route |-> route, status |-> status]
           ELSE reply

NoLocals(s) ==
  /\ scrapedData' = [scrapedData EXCEPT ![s] = NoData]
  /\ oldPrice' = [oldPrice EXCEPT ![s] = JSUndefined]
  /\ newPrice' = [newPrice EXCEPT ![s] = JSUndefined]
  /\ delta' = [delta EXCEPT ![s] = NoDelta]
  /\ user' = [user EXCEPT ![s] = "undefined"]
  /\ mail' = [mail EXCEPT ![s] = "none"]

InitSweeps ==
  /\ now = 0
  /\ pc = [s \in Sweeps |-> "idle"]
  /\ trigger = [s \in Sweeps |-> "none"]
  /\ products = [s \in Sweeps |-> <<>>]
  /\ idx = [s \in Sweeps |-> 0]
  /\ scrapedData = [s \in Sweeps |-> NoData]
  /\ oldPrice = [s \in Sweeps |-> JSUndefined]
  /\ newPrice = [s \in Sweeps |-> JSUndefined]
  /\ delta = [s \in Sweeps |-> NoDelta]
  /\ user = [s \in Sweeps |-> "undefined"]
  /\ mail = [s \in Sweeps |-> "none"]
  /\ wakeAt = [s \in Sweeps |-> 0]
  /\ fetchLog = [s \in Sweeps |-> <<>>]
  /\ notified = [s \in Sweeps |-> <<>>]
  /\ prior = [s \in Sweeps |-> JSUndefined]
  /\ overlapped = FALSE
  /\ reply = NoReply

\* The server starts on an empty products collection.
Empty ==
  /\ db = [i \in Items |-> NoDoc]
  /\ obsLog = [i \in Items |-> <<>>]

\* Runs of one invocation of checkPrices over up to MaxItems products.
Init ==
  /\ InitSweeps
  /\ Empty
  /\ limit = [items |-> MaxItems, sweeps |-> 1, targets |-> Targets, time |-> 0,
              replies |-> {}]

\* Runs of one invocation over one product, whose target may also be 0.
InitZero ==
  /\ InitSweeps
  /\ Empty
  /\ limit = [items |-> 1, sweeps |-> 1, targets |-> TargetsWithZero, time |-> 0,
              replies |-> {}]

\* Runs of up to MaxSweeps invocations, which may overlap, over one product.
InitOverlap ==
  /\ InitSweeps
  /\ Empty
  /\ limit = [items |-> 1, sweeps |-> MaxSweeps, targets |-> Targets, time |-> 0,
              replies |-> {}]

\* Runs of one invocation over one product, with the replies to registration
\* requests kept.
InitRegister ==
  /\ InitSweeps
  /\ Empty
  /\ limit = [items |-> 1, sweeps |-> 1, targets |-> Targets, time |-> 0,
              replies |-> {"products"}]

\* Runs of up to MaxSweeps invocations, which may overlap, over one product, with
\* the replies to manual triggers kept.
InitManual ==
  /\ InitSweeps
  /\ Empty
  /\ limit = [items |-> 1, sweeps |-> MaxSweeps, targets |-> Targets, time |-> 0,
              replies |-> {"check-prices"}]

\* Runs of up to MaxSweeps invocations, which may overlap, over one product, in
\* which up to MaxTime seconds may pass between any two steps.
InitDrift ==
  /\ InitSweeps
  /\ Empty
  /\ limit = [items |-> 1, sweeps |-> MaxSweeps, targets |-> Targets,
              time |-> MaxTime, replies |-> {}]

\* Runs that start where one product, registered at 100.00 with a target of
\* 90.00, has since been checked HistoryCap - 2 times by invocations that did not
\* overlap, PacingDelay apart, and found at 100.00 each time: its history is one
\* short of the cap.
SeedHistory ==
  [k \in 1..(HistoryCap - 1) |->
     [price |-> Num(10000), date |-> 0 - (HistoryCap - k) * PacingDelay]]

SeedDoc ==
  [exists |-> TRUE, isActive |-> TRUE, currentPrice |-> Num(10000),
   targetPrice |-> Num(9000), priceHistory |-> SeedHistory,
   lastChecked |-> 0 - PacingDelay, v |-> HistoryCap - 2]

InitCap ==
  /\ InitSweeps
  /\ db = [i \in Items |-> IF i = 1 THEN SeedDoc ELSE NoDoc]
  /\ obsLog = [i \in Items |-> IF i = 1 THEN SeedHistory ELSE <<>>]
  /\ limit = [items |-> 1, sweeps |-> MaxSweeps, targets |-> Targets, time |-> 0,
              replies |-> {}]

\* Runs that start where that product has been checked once more: its history
\* is at the cap.
FullHistory ==
  [k \in 1..HistoryCap |->
     [price |-> Num(10000), date |-> 0 - (HistoryCap + 1 - k) * PacingDelay]]

FullDoc ==
  [exists |-> TRUE, isActive |-> TRUE, currentPrice |-> Num(10000),
   targetPrice |-> Num(9000), priceHistory |-> FullHistory,
   lastChecked |-> 0 - PacingDelay, v |-> HistoryCap - 1]

InitFull ==
  /\ InitSweeps
  /\ db = [i \in Items |-> IF i = 1 THEN FullDoc ELSE NoDoc]
  /\ obsLog = [i \in Items |-> IF i = 1 THEN FullHistory ELSE <<>>]
  /\ limit = [items |-> 1, sweeps |-> MaxSweeps, targets |-> Targets, time |-> 0,
              replies |-> {}]

\* ---------------------------------------------------------------- routes
\* POST /api/products: one scrape, 400 without a price, else a new document
\* whose save goes through (201) or fails (500).
Register(resp, target, dbOk) ==
  /\ target \in limit.targets
  /\ \E i \in 1..limit.items : ~db[i].exists
  /\ LET i == CHOOSE j \in Items : ~db[j].exists /\ \A k \in 1..(j - 1) : db[k].exists
         sd == ScrapePrice(resp)
         product == NewProduct(sd.price, target, now)
     IN IF ~PriceOk(sd)
        THEN /\ Reply("products", 400)
             /\ UNCHANGED <<db, obsLog>>
        ELSE IF dbOk /\ Valid(product)
        THEN /\ db' = [db EXCEPT ![i] = product]
             /\ obsLog' = [obsLog EXCEPT ![i] = product.priceHistory]
             /\ Reply("products", 201)
        ELSE /\ Reply("products", 500)
             /\ UNCHANGED <<db, obsLog>>
  /\ UNCHANGED <<now, pc, trigger, products, idx, locals, wakeAt, fetchLog,
                 notified, prior, overlapped, limit>>

\* PUT /api/products/:id: findOneAndUpdate(..., { targetPrice }).
UpdateTarget(i, target) ==
  /\ target \in limit.targets
  /\ db[i].exists
  /\ db' = [db EXCEPT ![i].targetPrice = target]
  /\ UNCHANGED <<now, pc, trigger, products, idx, locals, wakeAt, fetchLog,
                 notified, prior, obsLog, overlapped, limit, reply>>

\* DELETE /api/products/:id: findOneAndUpdate(..., { isActive: false }).
SoftDelete(i) ==
  /\ db[i].exists
  /\ db' = [db EXCEPT ![i].isActive = FALSE]
  /\ UNCHANGED <<now, pc, trigger, products, idx, locals, wakeAt, fetchLog,
                 notified, prior, obsLog, overlapped, limit, reply>>


\* ------------------------------------------------------------ checkPrices
InProgress(s) == pc[s] \notin {"idle", "done"}

\* Variant of the call below: it is refused while an invocation is in progress.
StartExclusive(s, by) ==
  /\ pc[s] = "idle"
  /\ s <= limit.sweeps
  /\ \A r \in 1..(s - 1) : pc[r] # "idle"
  /\ ~\E r \in Sweeps : InProgress(r)
  /\ pc' = [pc EXCEPT ![s] = "find"]
  /\ trigger' = [trigger EXCEPT ![s] = by]
  /\ overlapped' = overlapped
  /\ UNCHANGED <<db, now, products, idx, locals, wakeAt, fetchLog, notified,
                 prior, obsLog, limit>>

\* checkPrices() is called: it runs up to its first await, Product.find.
\* Invocations are numbered in the order they start.
Start(s, by) ==
  /\ pc[s] = "idle"
  /\ s <= limit.sweeps
  /\ \A r \in 1..(s - 1) : pc[r] # "idle"
  /\ pc' = [pc EXCEPT ![s] = "find"]
  /\ trigger' = [trigger EXCEPT ![s] = by]
  /\ overlapped' = (overlapped \/ \E r \in Sweeps : InProgress(r))
  /\ UNCHANGED <<db, now, products, idx, locals, wakeAt, fetchLog, notified,
                 prior, obsLog, limit>>

\* cron.schedule('0 */4 * * *', checkPrices)
CronTrigger(s) ==
  /\ Start(s, "cron")
  /\ UNCHANGED reply

\* POST /api/check-prices: checkPrices() is not awaited; the reply follows.
ManualTrigger(s) ==
  /\ Start(s, "manual")
  /\ Reply("check-prices", 200)

\* Variant of the return below: the invocation starts over with Product.find.
ReturnStartsOver(s) ==
  /\ pc' = [pc EXCEPT ![s] = "find"]
  /\ products' = [products EXCEPT ![s] = <<>>]
  /\ idx' = [idx EXCEPT ![s] = 0]
  /\ fetchLog' = [fetchLog EXCEPT ![s] = <<>>]
  /\ notified' = [notified EXCEPT ![s] = <<>>]

\* checkPrices returns ("Price check completed", or the outer catch): nothing
\* of the invocation remains.
Return(s) ==
  /\ pc' = [pc EXCEPT ![s] = "done"]
  /\ products' = [products EXCEPT ![s] = <<>>]
  /\ idx' = [idx EXCEPT ![s] = 0]
  /\ fetchLog' = [fetchLog EXCEPT ![s] = <<>>]
  /\ notified' = [notified EXCEPT ![s] = <<>>]

\* The for loop moves to its next product, or ends.  The names of the loop body
\* (scrapedData, oldPrice, newPrice, user) go out of scope.
NextProduct(s) ==
  /\ NoLocals(s)
  /\ prior' = [prior EXCEPT ![s] = JSUndefined]
  /\ wakeAt' = [wakeAt EXCEPT ![s] = 0]
  /\ IF idx[s] < Len(products[s])
     THEN /\ idx' = [idx EXCEPT ![s] = @ + 1]
          /\ pc' = [pc EXCEPT ![s] = "fetch"]
          /\ UNCHANGED <<products, fetchLog, notified>>
     ELSE Return(s)

\* Variant of the catch below: a try/catch around the loop, which ends it.
CatchEndsLoop(s) ==
  /\ NoLocals(s)
  /\ prior' = [prior EXCEPT ![s] = JSUndefined]
  /\ wakeAt' = [wakeAt EXCEPT ![s] = 0]
  /\ Return(s)

\* catch (error) of the loop body: log, and on to the next product.
CatchInLoop(s) == NextProduct(s)

\* await new Promise(resolve => setTimeout(resolve, 2000))
StartDelay(s) ==
  /\ pc' = [pc EXCEPT ![s] = "delay"]
  /\ wakeAt' = [wakeAt EXCEPT ![s] = now + PacingDelay]

\* Product.find({ isActive: true }) returns, or throws into the outer catch.
FindProducts(s, dbOk) ==
  /\ pc[s] = "find"
  /\ trigger' = [trigger EXCEPT ![s] = "none"]
  /\ IF dbOk /\ ActiveProducts(db) # <<>>
     THEN /\ products' = [products EXCEPT ![s] = ActiveProducts(db)]
          /\ idx' = [idx EXCEPT ![s] = 1]
          /\ pc' = [pc EXCEPT ![s] = "fetch"]
          /\ UNCHANGED <<fetchLog, notified>>
     ELSE Return(s)
  /\ UNCHANGED <<db, now, locals, wakeAt, prior, obsLog, overlapped, limit, reply>>

\* scrapePrice(product.url) returns; with a price the document is updated and
\* save() is called, without one the loop body goes to its delay.
Scrape(s, resp) ==
  /\ pc[s] = "fetch"
  /\ LET product == products[s][idx[s]]
         sd == ScrapePrice(resp)
     IN /\ scrapedData' = [scrapedData EXCEPT ![s] = sd]
        /\ fetchLog' = [fetchLog EXCEPT ![s] = Append(@, [item |-> product.id, at |-> now])]
        /\ IF PriceOk(sd)
           THEN /\ oldPrice' = [oldPrice EXCEPT ![s] = product.currentPrice]
                /\ newPrice' = [newPrice EXCEPT ![s] = sd.price]
                /\ products' = [products EXCEPT ![s][idx[s]] = UpdateProduct(product, sd.price, now)]
                /\ delta' = [delta EXCEPT ![s] = Delta(product, sd.price, now)]
                /\ pc' = [pc EXCEPT ![s] = "save"]
                /\ UNCHANGED wakeAt
           ELSE /\ StartDelay(s)
                /\ UNCHANGED <<oldPrice, newPrice, products, delta>>
  /\ UNCHANGED <<db, now, trigger, idx, user, mail, notified, prior, obsLog, overlapped, limit, reply>>

\* What follows a save that went through: the notification test.
AfterSave(s) ==
  IF ShouldNotify(products[s][idx[s]].targetPrice, newPrice[s], oldPrice[s])
  THEN /\ pc' = [pc EXCEPT ![s] = "findUser"]
       /\ UNCHANGED wakeAt
  ELSE StartDelay(s)

\* Variant of the failed save below: the error is swallowed and the loop body
\* goes on to its notification test.
SaveFailedIgnored(s) ==
  /\ AfterSave(s)
  /\ UNCHANGED <<db, obsLog, prior, products, idx, locals, fetchLog, notified>>

\* product.save() throws: the catch of the loop body takes over.
SaveFailed(s) ==
  /\ CatchInLoop(s)
  /\ UNCHANGED <<db, obsLog>>

\* await product.save() returns or throws.
SaveDone(s, dbOk) ==
  /\ pc[s] = "save"
  /\ LET product == products[s][idx[s]]
         i == product.id
     IN IF SaveSucceeds(db[i], product, delta[s], dbOk)
        THEN /\ db' = [db EXCEPT ![i] = ApplySave(db[i], product, delta[s])]
             /\ obsLog' = [obsLog EXCEPT ![i] = Append(@, delta[s].entry)]
             /\ prior' = [prior EXCEPT ![s] = db[i].currentPrice]
             /\ AfterSave(s)
             /\ UNCHANGED <<products, idx, locals, fetchLog, notified>>
        ELSE SaveFailed(s)
  /\ UNCHANGED <<now, trigger, overlapped, limit, reply>>

UserResults == {"throws", "null", "notifications off", "notifications on"}

\* The call sendNotification(user, product, oldPrice, newPrice), as recorded.
Call(s) ==
  [item |-> products[s][idx[s]].id, old |-> oldPrice[s], new |-> newPrice[s],
   target |-> products[s][idx[s]].targetPrice, stored |-> prior[s]]

\* await User.findById(product.userId) returns a user (with notifications on or
\* off), returns null, or throws.  sendNotification(user, ...) is called for a
\* user; it returns at once when user.notifications is off, else it sends.
FindUserDone(s, found) ==
  /\ pc[s] = "findUser"
  /\ IF found = "throws"
     THEN CatchInLoop(s)
     ELSE /\ user' = [user EXCEPT ![s] = found]
          /\ UNCHANGED <<products, idx, scrapedData, oldPrice, newPrice, delta,
                         mail, fetchLog, prior>>
          /\ IF found = "null"
             THEN /\ StartDelay(s)
                  /\ UNCHANGED notified
             ELSE /\ notified' = [notified EXCEPT ![s] = Append(@, Call(s))]
                  /\ IF found = "notifications off"
                     THEN StartDelay(s)
                     ELSE /\ pc' = [pc EXCEPT ![s] = "mail"]
                          /\ UNCHANGED wakeAt
  /\ UNCHANGED <<db, now, trigger, obsLog, overlapped, limit, reply>>

\* Variant of the step below: a failed send is retried from the user lookup.
MailDoneRetry(s, sent) ==
  /\ pc[s] = "mail"
  /\ mail' = [mail EXCEPT ![s] = IF sent THEN "sent" ELSE "failed"]
  /\ IF sent
     THEN StartDelay(s)
     ELSE /\ pc' = [pc EXCEPT ![s] = "findUser"]
          /\ UNCHANGED wakeAt
  /\ UNCHANGED <<db, now, trigger, products, idx, scrapedData, oldPrice, newPrice,
                 delta, user, fetchLog, notified, prior, obsLog, overlapped, limit, reply>>

\* await transporter.sendMail(mailOptions) returns or throws; sendNotification
\* catches and logs the error.
MailDone(s, sent) ==
  /\ pc[s] = "mail"
  /\ mail' = [mail EXCEPT ![s] = IF sent THEN "sent" ELSE "failed"]
  /\ StartDelay(s)
  /\ UNCHANGED <<db, now, trigger, products, idx, scrapedData, oldPrice, newPrice,
                 delta, user, fetchLog, notified, prior, obsLog, overlapped, limit, reply>>

\* The timer of the delay fires, not before its time.
TimerFired(s) ==
  /\ pc[s] = "delay"
  /\ now >= wakeAt[s]
  /\ NextProduct(s)
  /\ UNCHANGED <<db, now, trigger, obsLog, overlapped, limit, reply>>

\* A second passes.
Tick ==
  /\ now < limit.time \/ \E s \in Sweeps : pc[s] = "delay" /\ now < wakeAt[s]
  /\ now' = now + 1
  /\ UNCHANGED <<db, pc, trigger, products, idx, locals, wakeAt, fetchLog,
                 notified, prior, obsLog, overlapped, limit, reply>>

\* What happens to registered products, from the routes and in the invocations.
Running ==
  \/ \E i \in Items, target \in TargetsWithZero : UpdateTarget(i, target)
  \/ \E i \in Items : SoftDelete(i)
  \/ \E s \in Sweeps : CronTrigger(s)
  \/ \E s \in Sweeps : ManualTrigger(s)
  \/ \E s \in Sweeps, dbOk \in BOOLEAN : FindProducts(s, dbOk)
  \/ \E s \in Sweeps, resp \in Responses : Scrape(s, resp)
  \/ \E s \in Sweeps, dbOk \in BOOLEAN : SaveDone(s, dbOk)
  \/ \E s \in Sweeps, found \in UserResults : FindUserDone(s, found)
  \/ \E s \in Sweeps, sent \in BOOLEAN : MailDone(s, sent)
  \/ \E s \in Sweeps : TimerFired(s)
  \/ Tick

Next ==
  \/ \E resp \in Responses, target \in Targets, dbOk \in BOOLEAN : Register(resp, target, dbOk)
  \/ Running

Spec == Init /\ [][Next]_vars

SpecOverlap == InitOverlap /\ [][Next]_vars

SpecZero == InitZero /\ [][Next]_vars

SpecCap == InitCap /\ [][Running]_vars

\* One invocation of checkPrices moves on: the await it stands at returns or
\* throws.
Step(s) ==
  \/ \E dbOk \in BOOLEAN : FindProducts(s, dbOk)
  \/ \E resp \in Responses : Scrape(s, resp)
  \/ \E dbOk \in BOOLEAN : SaveDone(s, dbOk)
  \/ \E found \in UserResults : FindUserDone(s, found)
  \/ \E sent \in BOOLEAN : MailDone(s, sent)
  \/ TimerFired(s)

\* Every await of checkPrices ends (axios has its timeout, the database and
\* the mail calls return or throw), and the clock runs on to a pending timer.
Fairness ==
  /\ WF_vars(Tick)
  /\ \A s \in Sweeps : WF_vars(Step(s))

SpecLive == Init /\ [][Next]_vars /\ Fairness

SpecDrift == InitDrift /\ [][Next]_vars

SpecFull == InitFull /\ [][Running]_vars

SpecRegister == InitRegister /\ [][Next]_vars

SpecManual == InitManual /\ [][Next]_vars


\* ================================================================= claims
\* The product an invocation is working on, and what is stored for it.
Current(s) == products[s][idx[s]]
Stored(s) == db[Current(s).id]
InHistory(e, h) == \E k \in 1..Len(h) : h[k] = e
Positive(x) == x.kind = "number" /\ x.v > 0

\* C1: in every stored state, after any interleaving of registrations and of
\* sweeps that may overlap, the priceHistory of every product holds at most 30
\* entries.
C1_HistoryWithinCap ==
  \A i \in Items : Len(db[i].priceHistory) <= HistoryCap

\* C2: for a product updated by sweeps that never overlapped, once more than 30
\* observations have been saved (the one of registration included), the stored
\* priceHistory holds exactly 30 entries, and they are the 30 most recent
\* observations in the order they were made.
C2_RetentionKeepsLatest ==
  \A i \in Items :
    (~overlapped /\ Len(obsLog[i]) > HistoryCap) =>
       /\ Len(db[i].priceHistory) = HistoryCap
       /\ \A k \in 1..HistoryCap :
            db[i].priceHistory[k] = obsLog[i][Len(obsLog[i]) - HistoryCap + k]

\* Two sweeps, one after the other, have taken the product from 29 to 31
\* observations, the last two at prices other than the earlier ones.
C2_Witness ==
  /\ ~overlapped
  /\ Len(obsLog[1]) = HistoryCap + 1
  /\ obsLog[1][HistoryCap].price = Num(9500)
  /\ obsLog[1][HistoryCap + 1].price = Num(8500)

\* C3: in a sweep, for a product whose new observation was saved, the owner is
\* looked up and, if there is one, sendNotification is called, exactly when the
\* product has a target price, the new price is at most the target, and the new
\* price is below the currentPrice the product had before this update; the call
\* carries that old price and the new one.
C3_Rule(target, new, old) ==
  target.kind = "number" /\ new.v <= target.v /\ new.v < old.v

C3_NotifyIffRule ==
  [][\A s \in Sweeps :
       /\ (pc[s] = "fetch" /\ pc'[s] = "save") =>
             /\ oldPrice'[s] = Current(s).currentPrice
             /\ newPrice'[s] = scrapedData'[s].price
             /\ Current(s)'.targetPrice = Current(s).targetPrice
       /\ (pc[s] = "save" /\ pc'[s] \in {"findUser", "delay"}) =>
             (pc'[s] = "findUser"
                <=> C3_Rule(Current(s).targetPrice, newPrice[s], oldPrice[s]))
       /\ (pc[s] = "findUser" /\ pc'[s] \in {"mail", "delay"}) =>
             IF user'[s] = "null"
             THEN notified'[s] = notified[s]
             ELSE notified'[s] =
                    Append(notified[s],
                           [item |-> Current(s).id, old |-> oldPrice[s],
                            new |-> newPrice[s], target |-> Current(s).targetPrice,
                            stored |-> prior[s]])
       /\ ((pc[s] # "findUser" \/ pc'[s] = "fetch") /\ pc'[s] # "done") =>
             notified'[s] = notified[s]
    ]_vars

\* sendNotification has been called for a drop from 100.00 to 85.00 under a
\* target of 90.00.
C3_Witness ==
  \E s \in Sweeps : \E k \in 1..Len(notified[s]) :
    /\ notified[s][k].old = Num(10000)
    /\ notified[s][k].target = Num(9000)
    /\ notified[s][k].new = Num(8500)

\* C4: within one sweep sendNotification is called at most once per product.
C4_OncePerItem ==
  \A s \in Sweeps : \A j, k \in 1..Len(notified[s]) :
    j # k => notified[s][j].item # notified[s][k].item

\* One sweep has called sendNotification for two products.
C4_Witness == \E s \in Sweeps : Len(notified[s]) = 2

\* C5: once a price p is stored as the currentPrice of a product, an observation
\* of the same price p never produces a notification, also when sweeps overlap:
\* no call of sendNotification carries a new price equal to the currentPrice
\* that the save of that observation replaced.
C5_NoRepeatAtStablePrice ==
  \A s \in Sweeps : \A k \in 1..Len(notified[s]) :
    notified[s][k].new # notified[s][k].stored

\* C6: a failure on one product of a sweep (fetch, extraction, save, owner
\* lookup, notification) does not keep the sweep from the products after it:
\* whatever happened, every product before the current one has been fetched,
\* and the sweep ends only after its last product.
C6_Fetched(s, n) ==
  /\ Len(fetchLog[s]) = n
  /\ \A k \in 1..n : fetchLog[s][k].item = products[s][k].id

C6_Isolation ==
  [][\A s \in Sweeps :
       /\ (pc[s] \in {"save", "findUser", "mail", "delay"} /\ pc'[s] = "fetch") =>
             /\ idx'[s] = idx[s] + 1
             /\ C6_Fetched(s, idx[s])
       /\ (pc[s] \in {"save", "findUser", "mail", "delay"} /\ pc'[s] = "done") =>
             /\ idx[s] = Len(products[s])
             /\ C6_Fetched(s, Len(products[s]))
    ]_vars

\* The save of the first product of a sweep failed (its loaded copy carries the
\* new entry, the stored document does not) and the second product was then
\* updated.
C6_Witness ==
  \E s \in Sweeps :
    /\ idx[s] = 2
    /\ pc[s] = "delay"
    /\ Len(products[s][1].priceHistory) = 2
    /\ Len(db[products[s][1].id].priceHistory) = 1
    /\ Len(db[products[s][2].id].priceHistory) = 2

\* C7: within one sweep the full delay of 2 s lies between the fetch of a
\* product and the fetch of the next, whether the earlier product succeeded or
\* failed in any way.
C7_Pacing ==
  \A s \in Sweeps : \A k \in 1..(Len(fetchLog[s]) - 1) :
    fetchLog[s][k + 1].at - fetchLog[s][k].at >= PacingDelay

\* C8: when the fetch or the extraction of a product fails in a sweep
\* (scrapePrice returns null, or a result without a price), the stored record is
\* left as it was: nothing is saved for it, then or in the rest of that pass of
\* the loop.
C8_NoPrice(sd) == ~sd.data \/ ~Positive(sd.price)

C8_FailureLeavesRecord ==
  [][\A s \in Sweeps :
       /\ (pc[s] = "fetch" /\ pc'[s] # "fetch" /\ C8_NoPrice(scrapedData'[s])) =>
             /\ pc'[s] = "delay"
             /\ db' = db
             /\ products'[s] = products[s]
       /\ (pc[s] = "delay" /\ pc'[s] # "delay") => db' = db
    ]_vars

\* The fetch of the second product of a sweep failed, after the first product
\* was updated.
C8_Witness ==
  \E s \in Sweeps :
    /\ pc[s] = "delay"
    /\ idx[s] = 2
    /\ ~scrapedData[s].data
    /\ Len(db[products[s][1].id].priceHistory) = 2
    /\ Len(db[products[s][2].id].priceHistory) = 1

\* C9: when a sweep reaches the notification step for a product, the new
\* currentPrice and the new history entry are stored already, and the step,
\* however it ends (no owner, lookup error, mail error), writes nothing: the
\* entry is still stored after it.
C9_Notifying == {"findUser", "mail"}

C9_UpdateSurvivesNotification ==
  [][\A s \in Sweeps :
       /\ (pc[s] = "save" /\ pc'[s] = "findUser") =>
             Stored(s)'.currentPrice = newPrice[s]
       /\ pc'[s] \in C9_Notifying => InHistory(delta'[s].entry, Stored(s)'.priceHistory)
       /\ (pc[s] \in C9_Notifying /\ pc'[s] \notin C9_Notifying) =>
             /\ db' = db
             /\ InHistory(delta[s].entry, Stored(s).priceHistory)
    ]_vars

\* A mail could not be sent, and the drop to 85.00 it was about is stored.
C9_Witness ==
  \E s \in Sweeps :
    /\ pc[s] = "delay"
    /\ mail[s] = "failed"
    /\ Stored(s).currentPrice = Num(8500)
    /\ InHistory(delta[s].entry, Stored(s).priceHistory)

\* C10: a result with a null price is never stored, by registration or by a
\* sweep: every stored currentPrice and every stored history price is a number
\* above zero that scrapePrice returned.
C10_Extracted(x) ==
  /\ Positive(x)
  /\ \E resp \in Responses : ScrapePrice(resp).data /\ ScrapePrice(resp).price = x

C10_NoNullPriceStored ==
  \A i \in Items :
    db[i].exists =>
      /\ C10_Extracted(db[i].currentPrice)
      /\ \A k \in 1..Len(db[i].priceHistory) : C10_Extracted(db[i].priceHistory[k].price)

\* A sweep got a result with a null price for a registered product, whose
\* record still holds the one observation of its registration.
C10_Witness ==
  \E s \in Sweeps :
    /\ pc[s] = "delay"
    /\ scrapedData[s].data
    /\ scrapedData[s].price = JSNull
    /\ Len(Stored(s).priceHistory) = 1

\* C11: when the scrape of a registration request yields no price (the fetch
\* failed, the store is not a known one, or no selector matched), the request is
\* answered with the error 400 and no record is created: the stored products
\* are what they were.
C11_NoPrice(resp) == ~ScrapePrice(resp).data \/ ~Positive(ScrapePrice(resp).price)

C11_RegistrationFailure ==
  [][\A resp \in Responses, target \in Targets, dbOk \in BOOLEAN :
       (Register(resp, target, dbOk) /\ C11_NoPrice(resp)) =>
          /\ reply' = [route |-> "products", status |-> 400]
          /\ db' = db
    ]_vars

\* A registration request was answered with 400 and there is no record.
C11_Witness ==
  /\ reply = [route |-> "products", status |-> 400]
  /\ \A i \in Items : ~db[i].exists

\* C12: every product document, active or soft-deleted, holds at least one
\* priceHistory entry: registration stores one, and no sweep, target update or
\* soft delete leaves the history empty.
C12_HistoryNonEmpty ==
  \A i \in Items : db[i].exists => Len(db[i].priceHistory) >= 1

\* A product that a sweep has updated was then given another target and
\* soft-deleted.
C12_Witness ==
  \E i \in Items :
    /\ db[i].exists
    /\ ~db[i].isActive
    /\ db[i].targetPrice = JSUndefined
    /\ Len(db[i].priceHistory) = 2
    /\ db[i].priceHistory[1].price # db[i].priceHistory[2].price

\* C13: whatever way scheduled and manual triggers interleave, two invocations
\* of checkPrices never both hold an update of the same product that is yet to
\* be saved (loaded and modified by both, saved by neither).
C13_OneWriterPerItem ==
  \A s, r \in Sweeps :
    (s # r /\ pc[s] = "save" /\ pc[r] = "save") => Current(s).id # Current(r).id

\* C14: the stored priceHistory of every product is in the order of its
\* timestamps, also after the cap has removed entries and when sweeps overlap.
\* Stated in the weaker form the claim implies, as the clock counts whole
\* seconds: no entry carries an earlier date than the entry before it.
C14_HistoryInTimeOrder ==
  \A i \in Items : \A k \in 1..(Len(db[i].priceHistory) - 1) :
    db[i].priceHistory[k].date <= db[i].priceHistory[k + 1].date

\* C15: in every stored state, also after a failed save and when sweeps
\* overlap, the currentPrice of a product is the price of the last entry of its
\* priceHistory: an update is stored as a whole or not at all.
C15_PriceIsLastEntry ==
  \A i \in Items :
    db[i].exists =>
      db[i].currentPrice = db[i].priceHistory[Len(db[i].priceHistory)].price

\* C16: a manual trigger is answered at once, while the invocation of
\* checkPrices it started is still at its first await, and it is neither
\* refused nor queued when another invocation is in progress: as long as an
\* invocation is left to start, the trigger is possible whatever the others are
\* doing, it starts its own invocation, and the others go on as they were.
C16_ManualTriggerDoesNotWait ==
  /\ [][\A s \in Sweeps :
          (trigger[s] # "manual" /\ trigger'[s] = "manual") =>
             /\ reply' = [route |-> "check-prices", status |-> 200]
             /\ pc'[s] = "find"
             /\ \A r \in Sweeps \ {s} : pc'[r] = pc[r]
       ]_vars
  /\ [](\A s \in Sweeps :
          (pc[s] = "idle" /\ s <= limit.sweeps /\ \A r \in 1..(s - 1) : pc[r] # "idle")
             => ENABLED ManualTrigger(s))

\* A manual trigger has been answered; the invocation it started has not yet
\* its list of products, and an earlier invocation is in the middle of its loop.
C16_Witness ==
  \E s, r \in Sweeps :
    /\ s # r
    /\ trigger[s] = "manual"
    /\ pc[s] = "find"
    /\ pc[r] = "save"
    /\ reply = [route |-> "check-prices", status |-> 200]

\* C17: if every fetch, save, owner lookup, mail send and delay ends, every
\* invocation of checkPrices that was started ends; the products it works on
\* are the ones that were active when Product.find returned, and when it ends
\* after its loop it has fetched each of them exactly once, whatever failed on
\* the way.
C17_Loaded(s) == {products[s][k].id : k \in 1..Len(products[s])}

C17_SweepCompletes ==
  /\ \A s \in Sweeps : (pc[s] = "find") ~> (pc[s] = "done")
  /\ [][\A s \in Sweeps :
          /\ (pc[s] = "find" /\ pc'[s] = "fetch") =>
                /\ C17_Loaded(s)' = {i \in Items : db[i].exists /\ db[i].isActive}
                /\ Len(products'[s]) = Cardinality(C17_Loaded(s)')
          /\ (pc[s] \notin {"idle", "find", "done"} /\ pc'[s] = "done") =>
                /\ Len(fetchLog[s]) = Len(products[s])
                /\ \A i \in C17_Loaded(s) :
                      Cardinality({k \in 1..Len(fetchLog[s]) : fetchLog[s][k].item = i}) = 1
       ]_vars

\* An invocation has ended after the update of its first product failed and
\* the update of its second product was stored.
C17_Witness ==
  \E s \in Sweeps :
    /\ pc[s] = "done"
    /\ \A i \in Items : db[i].exists /\ db[i].isActive
    /\ Len(db[1].priceHistory) = 1
    /\ Len(db[2].priceHistory) = 2

\* C18: in every call of sendNotification by a sweep the previous price is
\* above the new price and the new price is above zero, so the percentage
\* (old - new) / old * 100 is never computed with old = 0.
C18_SavingsDefined ==
  \A s \in Sweeps : \A k \in 1..Len(notified[s]) :
    /\ notified[s][k].old.kind = "number"
    /\ Positive(notified[s][k].new)
    /\ notified[s][k].old.v > notified[s][k].new.v

\* A mail about a drop from 95.00 to 85.00 has been sent.
C18_Witness ==
  \E s \in Sweeps :
    /\ pc[s] = "delay"
    /\ mail[s] = "sent"
    /\ oldPrice[s] = Num(9500)
    /\ newPrice[s] = Num(8500)
    /\ Len(notified[s]) = 1

\* C19: when a sweep calls sendNotification for a product, the product is
\* active and the new price is at most the target price, both as stored at that
\* moment, also when the owner changed the target or soft-deleted the product
\* after the sweep had loaded its list.
C19_NotifyOnStoredTarget ==
  [][\A s \in Sweeps :
       Len(notified'[s]) > Len(notified[s]) =>
          /\ Stored(s).isActive
          /\ Stored(s).targetPrice.kind = "number"
          /\ newPrice[s].v <= Stored(s).targetPrice.v
    ]_vars

\* C20: an observation whose save went through stays in the stored
\* priceHistory until the cap removes it as the oldest stored one; no later save
\* from a copy that was loaded earlier removes or replaces it.  The stored
\* history is the tail of the observations saved, in the order of their saves,
\* and it is shorter than all of them only where the cap applies.
C20_NoLostObservation ==
  \A i \in Items :
    db[i].exists =>
      LET h == db[i].priceHistory
          o == obsLog[i]
      IN /\ Len(h) <= Len(o)
         /\ h = SubSeq(o, Len(o) - Len(h) + 1, Len(o))
         /\ Len(h) = Len(o) \/ Len(h) >= HistoryCap

\* A sweep's write of the whole array, made on a copy loaded before another
\* sweep's observation was saved, is pending; that observation is stored.
C20_Witness ==
  \E s, r \in Sweeps :
    /\ s # r
    /\ pc[s] = "save"
    /\ delta[s].histOp = "set"
    /\ delta[s].whereV < Stored(s).v
    /\ pc[r] = "delay"
    /\ Current(r).id = Current(s).id
    /\ Stored(s).priceHistory[HistoryCap] = delta[r].entry
    /\ delta[r].entry # delta[s].entry

====
